---- MODULE Spec2Model ----
(***************************************************************************)
(* Model of the audio core of rust-discord-record: the ingestion callback  *)
(* (Receiver::act), the tick accumulator (BufferedPacketSource), the mixer *)
(* task, the lookback ring, the per-speaker rings (PerUserSoundBuffer) and *)
(* the Ogg-Opus packager (encode::encode).                                 *)
(*                                                                         *)
(* Conventions.  Option<T> is a sequence of length 0 (None) or 1 (Some).   *)
(* Result<T, E> is the same (Err is the empty sequence).  An Opus payload  *)
(* is the record [opus |-> pcm]: the codec is an injective function of the *)
(* PCM frame it encodes.  A ring entry is [frame |-> payload, seq |-> n],  *)
(* seq being a ghost tag: the number of the push that stored the entry.    *)
(* Times are milliseconds since the Receiver was constructed.              *)
(***************************************************************************)
EXTENDS Bags, FiniteSets, Integers, Sequences, TLC

\* ------------------------------------------------------------ constants
AUDIO_FREQUENCY == 48000
AUDIO_CHANNELS == 2
\* milliseconds
PACKET_DURATION == 20
FRAME_TIME_MS == 20
OGG_OPUS_SPS == 48000

\* Capacity of the lookback ring (90000 in the source), scaled.
BUFFER_SIZE == 3
\* Capacity of one speaker ring (6000 in the source), scaled.
TTS_BUFFER_SIZE == 2
\* Samples of one PCM frame (1920 in the source), scaled.
AUDIO_PACKET_SIZE == 2

\* ------------------------------------------------------------ bounds
\* calls of add_sound_mux made directly (lookback and mixing specifications)
MaxMux == 3
\* VoiceTick events delivered
MaxVoiceTicks == 2
\* frames handed to encode when it is called on its own
MaxEncodeFrames == 5
\* VoiceTick events handled entry by entry
MaxTransportTicks == 2
\* iterations of the mixer loop
\* VoiceTick events handled by the tasks on one thread
MaxActs == 1
\* iterations of the mixer task on one thread
MaxMixerPolls == 3
MaxTicks == BUFFER_SIZE + 2
MaxTime == MaxTicks * PACKET_DURATION

I16_MAX == 2^15 - 1
I16_MIN == -(2^15)

None == << >>
Some(x) == <<x>>

Ssrcs == {1, 2}
Users == {101, 102}
Serials == {0, 1}

Last(s) == s[Len(s)]

Perms(S) ==
  {f \in [1..Cardinality(S) -> S] : \A i, j \in 1..Cardinality(S) : f[i] = f[j] => i = j}

\* ------------------------------------------------------------ PCM frames
ConstFrame(v) == [i \in 1..AUDIO_PACKET_SIZE |-> v]
\* a frame whose first sample is a and whose other samples are b
SplitFrame(a, b) == [i \in 1..AUDIO_PACKET_SIZE |-> IF i = 1 THEN a ELSE b]

empty_raw_audio == [i \in 1..AUDIO_PACKET_SIZE |-> 0]

to_raw_audio_packet(data) ==
  IF Len(data) = AUDIO_PACKET_SIZE THEN Some(data) ELSE None

\* mutant: the sum wraps around (wrapping_add)
saturating_add_wrapping(a, b) == ((a + b - I16_MIN) % (2^16)) + I16_MIN

saturating_add(a, b) ==
  LET s == a + b
  IN  IF s > I16_MAX THEN I16_MAX ELSE IF s < I16_MIN THEN I16_MIN ELSE s

\* mutant: the popped packet overwrites the mix (= for saturating_add)
mix_into_overwrite(mix_buf, packet) ==
  [i \in 1..AUDIO_PACKET_SIZE |-> packet[i]]

\* one pass of the loop `for i in 0..AUDIO_PACKET_SIZE` over a popped packet
mix_into(mix_buf, packet) ==
  [i \in 1..AUDIO_PACKET_SIZE |-> saturating_add(mix_buf[i], packet[i])]

\* ------------------------------------------------------------ Opus encoder
\* Encoder::encode: Ok(payload) when the codec accepts the frame, Err otherwise.
opus_encode(pcm, accepted) == IF accepted THEN Some([opus |-> pcm]) ELSE None

\* ------------------------------------------------------------ CircularQueue
\* mutant: a full queue keeps growing
cq_push_grow(q, cap, x) == Append(q, x)

\* mutant: a full queue drops the new element, not the oldest one
cq_push_drop_newest(q, cap, x) ==
  IF Len(q) < cap THEN Append(q, x) ELSE q

cq_push(q, cap, x) ==
  IF Len(q) < cap THEN Append(q, x) ELSE Append(Tail(q), x)

\* asc_iter: oldest to newest
asc_iter(q) == q


\* ------------------------------------------------------------ Duration
\* A Duration reaches 2^64 seconds, beyond the integers of the checker: the
\* Duration [wraps |-> k, ms |-> m] lasts k * (2^64 * 20) + m milliseconds.
Millis(m) == [wraps |-> 0, ms |-> m]

\* duration_to_dump.as_millis() / PACKET_DURATION.as_millis(), a u128:
\* the number hi * 2^64 + lo
millis_div_packet(d) == [hi |-> d.wraps, lo |-> d.ms \div PACKET_DURATION]

\* `as usize` keeps the low 64 bits
as_usize(x) == x.lo

saturating_sub(a, b) == IF a >= b THEN a - b ELSE 0

\* ------------------------------------------------------------ encode.rs
VER == <<48, 46, 49, 46, 48>>

to_samples(S_PS, ms) == (S_PS * ms) \div 1000

calc_samples(counter, frame_samples) == counter * frame_samples

calc_sr_u64(val, org_sr, dest_sr) == (val * dest_sr) \div org_sr

\* mutant: the sample count is not converted to the 48 kHz granule clock
granule_unscaled(S_PS, val) == val

granule(S_PS, val) == calc_sr_u64(val, S_PS, OGG_OPUS_SPS)

\* mutant: no packet is marked as the end of the stream
is_end_of_stream_never(end) == "NormalPacket"

is_end_of_stream(end) == IF end THEN "EndStream" ELSE "NormalPacket"

\* LittleEndian::write_u16 / write_u32: the n bytes of v, lowest first
le_bytes(v, n) == [k \in 1..n |-> (v \div (256 ^ (k - 1))) % 256]

opus_head(NUM_CHANNELS) ==
  <<79, 112, 117, 115, 72, 101, 97, 100,
    1,
    NUM_CHANNELS,
    0, 0,
    0, 0, 0, 0,
    0, 0,
    0>>

\* mutant: the sample rate is never written into the header
head_rate_unwritten(S_PS, NUM_CHANNELS) == opus_head(NUM_CHANNELS)

head(S_PS, NUM_CHANNELS) ==
  [k \in 1..19 |->
     IF k \in 11..12 THEN le_bytes(0, 2)[k - 10]
     ELSE IF k \in 13..16 THEN le_bytes(S_PS, 4)[k - 12]
     ELSE opus_head(NUM_CHANNELS)[k]]

vendor_str == <<111, 103, 103, 45, 111, 112, 117, 115, 32>> \o VER

opus_tags ==
  <<79, 112, 117, 115, 84, 97, 103, 115>>
    \o le_bytes(Len(vendor_str), 4) \o vendor_str \o <<0>>

\* mutant: the serial is derived anew for every packet
write_packet_fresh_serial(data, serial, inf, absgp) ==
  [data |-> data, serial |-> serial + absgp, inf |-> inf, absgp |-> absgp]

\* PacketWriter::write_packet: the stream is the sequence of packets written
write_packet(data, serial, inf, absgp) ==
  [data |-> data, serial |-> serial, inf |-> inf, absgp |-> absgp]

\* mutant: the granule counts the frames before the packet, not through it
encode_granule_before(packets, S_PS, NUM_CHANNELS, serial) ==
  LET frame_samples == to_samples(S_PS, FRAME_TIME_MS)
  IN  << write_packet(head(S_PS, NUM_CHANNELS), serial, "EndPage", 0),
         write_packet(opus_tags, serial, "EndPage", 0) >>
      \o [i \in 1..Len(packets) |->
            write_packet(packets[i], serial,
                         is_end_of_stream((i - 1) = Len(packets) - 1),
                         granule(S_PS, calc_samples(i - 1, frame_samples)))]

\* encode::<S_PS, NUM_CHANNELS>(packets), the serial being the random draw
encode(packets, S_PS, NUM_CHANNELS, serial) ==
  LET frame_samples == to_samples(S_PS, FRAME_TIME_MS)
  IN  << write_packet(head(S_PS, NUM_CHANNELS), serial, "EndPage", 0),
         write_packet(opus_tags, serial, "EndPage", 0) >>
      \o [i \in 1..Len(packets) |->
            write_packet(packets[i], serial,
                         is_end_of_stream((i - 1) = Len(packets) - 1),
                         granule(S_PS, calc_samples(i, frame_samples)))]

\* ------------------------------------------------------------ BufferedPacketSource
\* packet_buffer is a BinaryHeap ordered by Reverse(time): a bag of
\* [packet, time]; the heap's top is an entry of least time.
\* mutant: the heap is ordered by time, not by Reverse(time)
heap_tops_newest(pb) ==
  {p \in BagToSet(pb) : \A q \in BagToSet(pb) : p.time >= q.time}

heap_tops(pb) ==
  {p \in BagToSet(pb) : \A q \in BagToSet(pb) : p.time <= q.time}

\* mutant: the grace window is one packet duration
peek_one_period(pb, at) ==
  IF BagToSet(pb) = {} THEN {None}
  ELSE {IF p.time >= at - PACKET_DURATION THEN None ELSE Some(p) :
          p \in heap_tops(pb)}

peek(pb, at) ==
  IF BagToSet(pb) = {} THEN {None}
  ELSE {IF p.time >= at - (PACKET_DURATION * 2) THEN None ELSE Some(p) :
          p \in heap_tops(pb)}

pop(pb, at) ==
  {IF r = None THEN [ret |-> None, packet_buffer |-> pb]
   ELSE [ret |-> r, packet_buffer |-> pb (-) SetToBag({r[1]})] :
     r \in peek(pb, at)}

push(pb, packet) == pb (+) SetToBag({packet})

\* mutant: `if let` for `while let`: one packet is folded per tick
mix_loop_single_pop(pb, at, mix_buf, consumed) ==
  {IF o.ret = None
   THEN [ret |-> Some(mix_buf), packet_buffer |-> pb, consumed |-> consumed]
   ELSE [ret |-> Some(mix_into(mix_buf, o.ret[1].packet)),
         packet_buffer |-> o.packet_buffer,
         consumed |-> Append(consumed, o.ret[1])] :
     o \in pop(pb, at)}

\* `while let Some(sortable_packet) = self.pop(now)`; consumed is the ghost
\* list of the packets popped, in pop order
RECURSIVE mix_loop(_, _, _, _)
mix_loop(pb, at, mix_buf, consumed) ==
  UNION {IF o.ret = None
         THEN {[ret |-> Some(mix_buf), packet_buffer |-> pb, consumed |-> consumed]}
         ELSE mix_loop(o.packet_buffer, at, mix_into(mix_buf, o.ret[1].packet),
                       Append(consumed, o.ret[1])) :
           o \in pop(pb, at)}

\* mutant: no early exit when there is no packet to fold
create_mixed_raw_buffer_no_early_exit(pb, at) ==
  mix_loop(pb, at, empty_raw_audio, << >>)

create_mixed_raw_buffer(pb, at) ==
  IF None \in peek(pb, at)
  THEN {[ret |-> None, packet_buffer |-> pb, consumed |-> << >>]}
  ELSE mix_loop(pb, at, empty_raw_audio, << >>)

\* ------------------------------------------------------------ Receiver::drain_buffer
\* mutant: the trimmed slice starts one frame early
packets_start_index_one_early(len, packets_to_dump) ==
  saturating_sub(len, packets_to_dump + 1)

packets_start_index(len, packets_to_dump) == saturating_sub(len, packets_to_dump)

trimmed_packets(packets, duration_to_dump) ==
  IF duration_to_dump # None
  THEN LET packets_to_dump == as_usize(millis_div_packet(duration_to_dump[1]))
       IN  SubSeq(packets, packets_start_index(Len(packets), packets_to_dump) + 1,
                  Len(packets))
  ELSE packets

drain_buffer(q, duration_to_dump, serial) ==
  encode(trimmed_packets(asc_iter(q), duration_to_dump),
         AUDIO_FREQUENCY, AUDIO_CHANNELS, serial)

\* ------------------------------------------------------------ state
VARIABLES
  now,                    \* Instant::now()
  events,                 \* ghost: ingestion events delivered so far
  packet_buffer,          \* Receiver.user_to_packet_buffer (the tick accumulator)
  mixer_alive,            \* the mixer task has not panicked
  ticks,                  \* ghost: iterations of the mixer loop run to their end
  empty_encoded,          \* the mixer task's silent frame
  buf,                    \* Receiver.buf (the lookback ring)
  ssrc_to_user,           \* Receiver.ssrc_to_user
  user_to_sound_packets,  \* PerUserSoundBuffer.user_to_sound_packets
  tts_empty_encoded,      \* PerUserSoundBuffer.empty_encoded
  tts_pushed,             \* ghost: pushes into each speaker's ring so far
  act_pending,            \* act: the entries of data.speaking still to be handled
  buf_lock,               \* the holder of the Mutex of Receiver.buf
  drain_packets,          \* drain_buffer: its Vec packets, None when no drain runs
  running,                \* the task the runtime's thread is polling, or "none"
  pc,                     \* where each task that suspends stands in its code
  tts_lock,               \* the holder of the RwLock Tts.per_user_sound_buffer
  acc_lock,               \* the holder of the Mutex of Receiver.user_to_packet_buffer
  act_ref,                \* act: the Ref into ssrc_to_user it holds, and its packet's stamp
  speaking_event,         \* act: the SpeakingStateUpdate being handled
  mix_pending,            \* the mixer task: encoded_vec before it is pushed
  last                    \* ghost: the operation that ran last, its input and result

vars ==
  <<now, events, packet_buffer, mixer_alive, ticks, empty_encoded, buf,
    ssrc_to_user, user_to_sound_packets, tts_empty_encoded, tts_pushed,
    act_pending, buf_lock, drain_packets,
    running, pc, tts_lock, acc_lock, act_ref, speaking_event, mix_pending, last>>

lookback_vars == <<packet_buffer, mixer_alive, ticks, empty_encoded, buf>>
tts_vars == <<user_to_sound_packets, tts_empty_encoded, tts_pushed>>
\* the positions and locals of the tasks that run in steps
sched_vars == <<running, pc, tts_lock, acc_lock, act_ref, speaking_event, mix_pending>>
task_vars == <<act_pending, buf_lock, drain_packets, sched_vars>>

\* the tasks that suspend between their steps
Tasks == {"voice_tick", "speaking_state_update", "mixer"}

Init ==
  /\ now = 0
  /\ events = 0
  /\ packet_buffer = EmptyBag
  /\ mixer_alive = TRUE
  /\ ticks = 0
  /\ empty_encoded = opus_encode(empty_raw_audio, TRUE)[1]
  /\ buf = << >>
  /\ ssrc_to_user = << >>
  /\ user_to_sound_packets = << >>
  /\ tts_empty_encoded = opus_encode(empty_raw_audio, TRUE)[1]
  /\ tts_pushed = [u \in Users |-> 0]
  /\ act_pending = << >>
  /\ buf_lock = "free"
  /\ drain_packets = None
  /\ running = "none"
  /\ pc = [t \in Tasks |-> IF t = "mixer" THEN "tick" ELSE "idle"]
  /\ tts_lock = "free"
  /\ acc_lock = "free"
  /\ act_ref = None
  /\ speaking_event = None
  /\ mix_pending = None
  /\ last = [op |-> "new"]

\* ------------------------------------------------------------ the clock
Advance ==
  /\ now + PACKET_DURATION <= MaxTime
  /\ now' = now + PACKET_DURATION
  /\ last' = [op |-> "advance"]
  /\ UNCHANGED <<events, lookback_vars, ssrc_to_user, tts_vars, task_vars>>

\* ------------------------------------------------------------ Receiver::add_sound_mux
add_sound_mux(pb, packet, at) == push(pb, [packet |-> packet, time |-> at])

AddSoundMux(packet) ==
  /\ events < MaxMux
  /\ events' = events + 1
  /\ packet_buffer' = add_sound_mux(packet_buffer, packet, now)
  /\ last' = [op |-> "add_sound_mux", packet |-> packet]
  /\ UNCHANGED <<now, mixer_alive, ticks, empty_encoded, buf, ssrc_to_user, tts_vars, task_vars>>

\* ------------------------------------------------------------ the mixer task
\* One iteration of the loop of start_task_mix_packet_buffer.  interval.tick()
\* completes at once the first time and then once per PACKET_DURATION, never
\* early; late ticks are caught up.  encode(..).unwrap() panics when the
\* codec rejects the mix, which ends the task.
\* mutant: the lock is taken without waiting for its holder
can_lock_always(holder) == TRUE

\* Mutex::lock().await completes when nobody holds the mutex
can_lock(holder) == holder = "free"

\* mutant: the loop does not wait for the interval
tick_due_at_once(done, at) == TRUE

\* interval.tick() has completed done times before: the next completion is
\* due done periods after the start
tick_due(done, at) == done * PACKET_DURATION <= at

MixTick ==
  /\ mixer_alive
  /\ ticks < MaxTicks
  /\ tick_due(ticks, now)
  /\ can_lock(buf_lock)
  /\ \E m \in create_mixed_raw_buffer(packet_buffer, now), accepted \in BOOLEAN :
       LET encoded_vec ==
             IF m.ret = None THEN Some(empty_encoded)
             ELSE opus_encode(m.ret[1], accepted)
       IN  /\ packet_buffer' = m.packet_buffer
           /\ IF encoded_vec = None
              THEN /\ mixer_alive' = FALSE
                   /\ UNCHANGED <<ticks, buf>>
              ELSE /\ buf' = cq_push(buf, BUFFER_SIZE,
                                     [frame |-> encoded_vec[1], seq |-> ticks + 1])
                   /\ ticks' = ticks + 1
                   /\ UNCHANGED mixer_alive
           /\ last' = [op |-> "mix", consumed |-> m.consumed, mix_buf |-> m.ret,
                       encoder_called |-> (m.ret # None),
                       rejected |-> (m.ret # None /\ ~accepted),
                       pushed |-> encoded_vec]
  /\ UNCHANGED <<now, events, empty_encoded, ssrc_to_user, tts_vars, task_vars>>

\* ------------------------------------------------------------ drains
\* mutant: the drain takes the frames out of the ring
DrainBuffer_empties_ring(duration_to_dump, serial) ==
  /\ last' = [op |-> "drain_buffer", duration_to_dump |-> duration_to_dump,
              ret |-> drain_buffer(buf, duration_to_dump, serial)]
  /\ buf' = << >>
  /\ UNCHANGED <<now, events, packet_buffer, mixer_alive, ticks, empty_encoded,
                 ssrc_to_user, tts_vars, task_vars>>

DrainBuffer(duration_to_dump, serial) ==
  /\ last' = [op |-> "drain_buffer", duration_to_dump |-> duration_to_dump,
              ret |-> drain_buffer(buf, duration_to_dump, serial)]
  /\ UNCHANGED <<now, events, lookback_vars, ssrc_to_user, tts_vars, task_vars>>

\* drain_buffer in the steps the mixer task can run between: taking the
\* lock of buf, cloning one frame, dropping the lock, packaging.
DrainLock ==
  /\ drain_packets = None
  /\ can_lock(buf_lock)
  /\ buf_lock' = "drain_buffer"
  /\ drain_packets' = Some(<< >>)
  /\ last' = [op |-> "drain_lock"]
  /\ UNCHANGED <<now, events, lookback_vars, ssrc_to_user, tts_vars, act_pending, sched_vars>>

\* one iteration of `for sample in unlocked_reader.asc_iter()`
DrainCopy ==
  /\ drain_packets # None
  /\ buf_lock = "drain_buffer"
  /\ Len(drain_packets[1]) < Len(asc_iter(buf))
  /\ drain_packets' = Some(Append(drain_packets[1],
                                  asc_iter(buf)[Len(drain_packets[1]) + 1]))
  /\ last' = [op |-> "drain_copy"]
  /\ UNCHANGED <<now, events, lookback_vars, ssrc_to_user, tts_vars, act_pending, buf_lock,
                 sched_vars>>

\* the end of the block that holds unlocked_reader
DrainUnlock ==
  /\ drain_packets # None
  /\ buf_lock = "drain_buffer"
  /\ Len(drain_packets[1]) >= Len(asc_iter(buf))
  /\ buf_lock' = "free"
  /\ last' = [op |-> "drain_unlock"]
  /\ UNCHANGED <<now, events, lookback_vars, ssrc_to_user, tts_vars, act_pending,
                 drain_packets, sched_vars>>

\* trimming and encode::encode, on the cloned frames
DrainPackage(duration_to_dump, serial) ==
  /\ drain_packets # None
  /\ buf_lock # "drain_buffer"
  /\ last' = [op |-> "drain_buffer", duration_to_dump |-> duration_to_dump,
              ret |-> encode(trimmed_packets(drain_packets[1], duration_to_dump),
                             AUDIO_FREQUENCY, AUDIO_CHANNELS, serial)]
  /\ drain_packets' = None
  /\ UNCHANGED <<now, events, lookback_vars, ssrc_to_user, tts_vars, act_pending, buf_lock,
                 sched_vars>>

\* ------------------------------------------------------------ PerUserSoundBuffer
\* t is [user_to_sound_packets, empty_encoded, pushed]; pushed is the ghost
\* count of pushes per user.  accepted: the codec accepts the frame, if asked.
encode_opus_packet(t, data, accepted) ==
  IF data # None /\ opus_encode(data[1], accepted) # None
  THEN opus_encode(data[1], accepted)[1]
  ELSE t.empty_encoded

\* mutant: the speaker ring is given the capacity of the lookback ring
tts_push_lookback_capacity(t, user, data, accepted) ==
  LET encoded_packet == encode_opus_packet(t, data, accepted)
      q == IF user \in DOMAIN t.user_to_sound_packets
           THEN t.user_to_sound_packets[user] ELSE << >>
      n == t.pushed[user] + 1
  IN  [t EXCEPT
         !.user_to_sound_packets =
            (user :> cq_push(q, BUFFER_SIZE, [frame |-> encoded_packet, seq |-> n]))
              @@ @,
         !.pushed[user] = n]

tts_push(t, user, data, accepted) ==
  LET encoded_packet == encode_opus_packet(t, data, accepted)
      \* entry(user).or_insert_with(|| CircularQueue::with_capacity(BUFFER_SIZE))
      q == IF user \in DOMAIN t.user_to_sound_packets
           THEN t.user_to_sound_packets[user] ELSE << >>
      n == t.pushed[user] + 1
  IN  [t EXCEPT
         !.user_to_sound_packets =
            (user :> cq_push(q, TTS_BUFFER_SIZE, [frame |-> encoded_packet, seq |-> n]))
              @@ @,
         !.pushed[user] = n]

\* mutant: a user without a ring is drained as an empty ring
get_ogg_buffer_missing_is_empty(t, user, serial) ==
  Some(encode(asc_iter(IF user \in DOMAIN t.user_to_sound_packets
                       THEN t.user_to_sound_packets[user] ELSE << >>),
              AUDIO_FREQUENCY, AUDIO_CHANNELS, serial))

\* Err (the empty sequence) is "missing user registration"
get_ogg_buffer(t, user, serial) ==
  IF user \notin DOMAIN t.user_to_sound_packets THEN None
  ELSE Some(encode(asc_iter(t.user_to_sound_packets[user]),
                   AUDIO_FREQUENCY, AUDIO_CHANNELS, serial))

\* ------------------------------------------------------------ Receiver::act
\* st is [packet_buffer, tts]; order is the order in which the map
\* data.speaking is iterated; at is Instant::now().
\* mutant: a speaker without a usable frame gets no push for the tick
RECURSIVE speaking_loop_drops_invalid(_, _, _, _, _, _)
speaking_loop_drops_invalid(order, speaking, accepted, map, st, at) ==
  IF order = << >> THEN st
  ELSE
    LET ssrc == Head(order)
        data == speaking[ssrc]
        user == IF ssrc \in DOMAIN map THEN Some(map[ssrc]) ELSE None
        ok == IF ssrc \in DOMAIN accepted THEN accepted[ssrc] ELSE TRUE
        st1 ==
          IF user # None
          THEN IF data.decoded_voice # None
               THEN LET packet == to_raw_audio_packet(data.decoded_voice[1])
                    IN  [packet_buffer |->
                           IF packet # None
                           THEN add_sound_mux(st.packet_buffer, packet[1], at)
                           ELSE st.packet_buffer,
                         tts |-> IF packet # None THEN tts_push(st.tts, user[1], packet, ok) ELSE st.tts]
               ELSE st
          ELSE st
    IN  speaking_loop_drops_invalid(Tail(order), speaking, accepted, map, st1, at)

\* mutant: a frame of the wrong length is cut or zero-padded to size and used
RECURSIVE speaking_loop_resizes(_, _, _, _, _, _)
speaking_loop_resizes(order, speaking, accepted, map, st, at) ==
  IF order = << >> THEN st
  ELSE
    LET ssrc == Head(order)
        data == speaking[ssrc]
        user == IF ssrc \in DOMAIN map THEN Some(map[ssrc]) ELSE None
        ok == IF ssrc \in DOMAIN accepted THEN accepted[ssrc] ELSE TRUE
        st1 ==
          IF user # None
          THEN IF data.decoded_voice # None
               THEN LET packet == Some([i \in 1..AUDIO_PACKET_SIZE |->
                                   IF i <= Len(data.decoded_voice[1])
                                   THEN data.decoded_voice[1][i] ELSE 0])
                    IN  [packet_buffer |->
                           IF packet # None
                           THEN add_sound_mux(st.packet_buffer, packet[1], at)
                           ELSE st.packet_buffer,
                         tts |-> tts_push(st.tts, user[1], packet, ok)]
               ELSE [st EXCEPT !.tts = tts_push(st.tts, user[1], None, ok)]
          ELSE st
    IN  speaking_loop_resizes(Tail(order), speaking, accepted, map, st1, at)

\* mutant: an ssrc without a mapping is filed under a default user
RECURSIVE speaking_loop_default_user(_, _, _, _, _, _)
speaking_loop_default_user(order, speaking, accepted, map, st, at) ==
  IF order = << >> THEN st
  ELSE
    LET ssrc == Head(order)
        data == speaking[ssrc]
        user == IF ssrc \in DOMAIN map THEN Some(map[ssrc]) ELSE Some(101)
        ok == IF ssrc \in DOMAIN accepted THEN accepted[ssrc] ELSE TRUE
        st1 ==
          IF user # None
          THEN IF data.decoded_voice # None
               THEN LET packet == to_raw_audio_packet(data.decoded_voice[1])
                    IN  [packet_buffer |->
                           IF packet # None
                           THEN add_sound_mux(st.packet_buffer, packet[1], at)
                           ELSE st.packet_buffer,
                         tts |-> tts_push(st.tts, user[1], packet, ok)]
               ELSE [st EXCEPT !.tts = tts_push(st.tts, user[1], None, ok)]
          ELSE st
    IN  speaking_loop_default_user(Tail(order), speaking, accepted, map, st1, at)

RECURSIVE speaking_loop(_, _, _, _, _, _)
speaking_loop(order, speaking, accepted, map, st, at) ==
  IF order = << >> THEN st
  ELSE
    LET ssrc == Head(order)
        data == speaking[ssrc]
        user == IF ssrc \in DOMAIN map THEN Some(map[ssrc]) ELSE None
        ok == IF ssrc \in DOMAIN accepted THEN accepted[ssrc] ELSE TRUE
        st1 ==
          IF user # None
          THEN IF data.decoded_voice # None
               THEN LET packet == to_raw_audio_packet(data.decoded_voice[1])
                    IN  [packet_buffer |->
                           IF packet # None
                           THEN add_sound_mux(st.packet_buffer, packet[1], at)
                           ELSE st.packet_buffer,
                         tts |-> tts_push(st.tts, user[1], packet, ok)]
               ELSE [st EXCEPT !.tts = tts_push(st.tts, user[1], None, ok)]
          ELSE st
    IN  speaking_loop(Tail(order), speaking, accepted, map, st1, at)

\* mutant: a silence marker also hands a zero frame to the mixer
RECURSIVE silent_loop_mixes_silence(_, _, _)
silent_loop_mixes_silence(order, map, st) ==
  IF order = << >> THEN st
  ELSE
    LET ssrc == Head(order)
        st1 == IF ssrc \in DOMAIN map
               THEN [packet_buffer |-> add_sound_mux(st.packet_buffer, empty_raw_audio, 0),
                     tts |-> tts_push(st.tts, map[ssrc], None, TRUE)]
               ELSE st
    IN  silent_loop_mixes_silence(Tail(order), map, st1)

RECURSIVE silent_loop(_, _, _)
silent_loop(order, map, st) ==
  IF order = << >> THEN st
  ELSE
    LET ssrc == Head(order)
        st1 == IF ssrc \in DOMAIN map
               THEN [st EXCEPT !.tts = tts_push(st.tts, map[ssrc], None, TRUE)]
               ELSE st
    IN  silent_loop(Tail(order), map, st1)

\* the ssrcs of a VoiceTick for which act asks the codec to encode a frame
Encoding(data, map) ==
  {ssrc \in DOMAIN data.speaking :
     /\ ssrc \in DOMAIN map
     /\ data.speaking[ssrc].decoded_voice # None
     /\ to_raw_audio_packet(data.speaking[ssrc].decoded_voice[1]) # None}

act_voice_tick(data, order, silent_order, accepted, map, st, at) ==
  silent_loop(silent_order, map,
              speaking_loop(order, data.speaking, accepted, map, st, at))

VoiceTick(data) ==
  /\ events < MaxVoiceTicks
  /\ events' = events + 1
  /\ \E order \in Perms(DOMAIN data.speaking), silent_order \in Perms(data.silent),
        accepted \in [Encoding(data, ssrc_to_user) -> BOOLEAN] :
       LET st == act_voice_tick(data, order, silent_order, accepted, ssrc_to_user,
                                [packet_buffer |-> packet_buffer,
                                 tts |-> [user_to_sound_packets |-> user_to_sound_packets,
                                          empty_encoded |-> tts_empty_encoded,
                                          pushed |-> tts_pushed]],
                                now)
       IN  /\ packet_buffer' = st.packet_buffer
           /\ user_to_sound_packets' = st.tts.user_to_sound_packets
           /\ tts_empty_encoded' = st.tts.empty_encoded
           /\ tts_pushed' = st.tts.pushed
           /\ last' = [op |-> "voice_tick", data |-> data, accepted |-> accepted]
  /\ UNCHANGED <<now, mixer_alive, ticks, empty_encoded, buf, ssrc_to_user, task_vars>>

speaking_state_update(map, ssrc, user_id) ==
  IF user_id # None THEN (ssrc :> user_id[1]) @@ map ELSE map

SpeakingStateUpdate(ssrc, user_id) ==
  /\ ssrc_to_user' = speaking_state_update(ssrc_to_user, ssrc, user_id)
  /\ last' = [op |-> "speaking_state_update", ssrc |-> ssrc, user_id |-> user_id]
  /\ UNCHANGED <<now, events, lookback_vars, tts_vars, task_vars>>

GetOggBuffer(user, serial) ==
  /\ last' = [op |-> "get_ogg_buffer", user |-> user,
              ret |-> get_ogg_buffer([user_to_sound_packets |-> user_to_sound_packets,
                                      empty_encoded |-> tts_empty_encoded,
                                      pushed |-> tts_pushed], user, serial)]
  /\ UNCHANGED <<now, events, lookback_vars, ssrc_to_user, tts_vars, task_vars>>

\* ------------------------------------------------------------ act, entry by entry
\* The VoiceTick arm of act suspends at every add_sound_mux(..).await, so
\* the mixer task and the clock run between two entries of data.speaking.
\* The frame of ssrc in the vt-th VoiceTick is recognisable by its samples.
TransportFrame(vt, ssrc) == ConstFrame(10 * vt + ssrc)

\* act is entered with a VoiceTick whose speaking map, iterated in the
\* order given, holds one valid frame per ssrc
ActVoiceTickBegin(order) ==
  /\ act_pending = << >>
  /\ events < MaxTransportTicks
  /\ events' = events + 1
  /\ act_pending' =
       [k \in 1..Len(order) |->
          [ssrc |-> order[k],
           data |-> [decoded_voice |-> Some(TransportFrame(events + 1, order[k]))]]]
  /\ last' = [op |-> "act_begin"]
  /\ UNCHANGED <<now, lookback_vars, ssrc_to_user, tts_vars, buf_lock, drain_packets,
                 sched_vars>>

\* one iteration of `for (ssrc, data) in &data.speaking`
ActVoiceTickStep ==
  /\ act_pending # << >>
  /\ LET e == Head(act_pending)
         speaking == (e.ssrc :> e.data)
     IN  \E accepted \in [Encoding([speaking |-> speaking], ssrc_to_user) -> BOOLEAN] :
           LET st == speaking_loop(<<e.ssrc>>, speaking, accepted, ssrc_to_user,
                                   [packet_buffer |-> packet_buffer,
                                    tts |-> [user_to_sound_packets |-> user_to_sound_packets,
                                             empty_encoded |-> tts_empty_encoded,
                                             pushed |-> tts_pushed]],
                                   now)
           IN  /\ packet_buffer' = st.packet_buffer
               /\ user_to_sound_packets' = st.tts.user_to_sound_packets
               /\ tts_empty_encoded' = st.tts.empty_encoded
               /\ tts_pushed' = st.tts.pushed
               /\ last' = [op |-> "act_step", ssrc |-> e.ssrc]
  /\ act_pending' = Tail(act_pending)
  /\ UNCHANGED <<now, events, mixer_alive, ticks, empty_encoded, buf, ssrc_to_user,
                 buf_lock, drain_packets, sched_vars>>

\* ------------------------------------------------------------ the tasks on one thread
\* On a current-thread runtime one task is polled at a time and keeps the
\* thread until an .await returns Pending.  The two arms of act run as tasks
\* of their own (the Receiver is shared by every call it is registered with).
can_poll(t) == running \in {"none", t}

\* the .await of a lock: Mutex::lock and RwLock::write poll the task's
\* cooperative budget before the lock, so they return Pending when the lock
\* is held and also when the budget of this poll is used up
AwaitPoints == {"tts_write", "mux_lock", "acc_lock", "buf_lock"}

Yield ==
  /\ running \in Tasks
  /\ pc[running] \in AwaitPoints
  /\ running' = "none"
  /\ last' = [op |-> "yield", task |-> running]
  /\ UNCHANGED <<now, events, lookback_vars, ssrc_to_user, tts_vars, act_pending, buf_lock,
                 drain_packets, pc, tts_lock, acc_lock, act_ref, speaking_event,
                 mix_pending>>

\* act is entered with a VoiceTick, up to `self.tts.per_user_sound_buffer.write()`
ActEnter(order) ==
  /\ running = "none"
  /\ pc["voice_tick"] = "idle"
  /\ events < MaxActs
  /\ events' = events + 1
  /\ act_pending' =
       [k \in 1..Len(order) |->
          [ssrc |-> order[k],
           data |-> [decoded_voice |-> Some(TransportFrame(events + 1, order[k]))]]]
  /\ pc' = [pc EXCEPT !["voice_tick"] = "tts_write"]
  /\ running' = "voice_tick"
  /\ last' = [op |-> "act_enter"]
  /\ UNCHANGED <<now, lookback_vars, ssrc_to_user, tts_vars, buf_lock, drain_packets,
                 tts_lock, acc_lock, act_ref, speaking_event, mix_pending>>

\* write().await completes
ActWriteLock ==
  /\ can_poll("voice_tick")
  /\ pc["voice_tick"] = "tts_write"
  /\ can_lock(tts_lock)
  /\ tts_lock' = "voice_tick"
  /\ pc' = [pc EXCEPT !["voice_tick"] = "loop"]
  /\ running' = "voice_tick"
  /\ last' = [op |-> "act_write_lock"]
  /\ UNCHANGED <<now, events, lookback_vars, ssrc_to_user, tts_vars, act_pending, buf_lock,
                 drain_packets, acc_lock, act_ref, speaking_event, mix_pending>>

\* the next entry of data.speaking, from `self.ssrc_to_user.get(ssrc)` to
\* the lock().await in add_sound_mux, where the packet is already stamped;
\* the Ref that get returns lives to the end of the iteration
ActGet ==
  /\ running = "voice_tick"
  /\ pc["voice_tick"] = "loop"
  /\ act_pending # << >>
  /\ LET e == Head(act_pending)
     IN  IF e.ssrc \notin DOMAIN ssrc_to_user
         THEN /\ act_pending' = Tail(act_pending)
              /\ UNCHANGED <<pc, act_ref, packet_buffer, tts_vars>>
         ELSE IF Encoding([speaking |-> (e.ssrc :> e.data)], ssrc_to_user) # {}
         THEN /\ act_ref' = Some([ssrc |-> e.ssrc, time |-> now])
              /\ pc' = [pc EXCEPT !["voice_tick"] = "mux_lock"]
              /\ UNCHANGED <<act_pending, packet_buffer, tts_vars>>
         ELSE LET st == speaking_loop(<<e.ssrc>>, (e.ssrc :> e.data), << >>, ssrc_to_user,
                                      [packet_buffer |-> packet_buffer,
                                       tts |-> [user_to_sound_packets |-> user_to_sound_packets,
                                                empty_encoded |-> tts_empty_encoded,
                                                pushed |-> tts_pushed]],
                                      now)
              IN  /\ packet_buffer' = st.packet_buffer
                  /\ user_to_sound_packets' = st.tts.user_to_sound_packets
                  /\ tts_empty_encoded' = st.tts.empty_encoded
                  /\ tts_pushed' = st.tts.pushed
                  /\ act_pending' = Tail(act_pending)
                  /\ UNCHANGED <<pc, act_ref>>
  /\ last' = [op |-> "act_get"]
  /\ UNCHANGED <<now, events, mixer_alive, ticks, empty_encoded, buf, ssrc_to_user,
                 buf_lock, drain_packets, running, tts_lock, acc_lock, speaking_event,
                 mix_pending>>

\* `self.user_to_packet_buffer.lock().await` completes
ActMuxLock ==
  /\ can_poll("voice_tick")
  /\ pc["voice_tick"] = "mux_lock"
  /\ can_lock(acc_lock)
  /\ acc_lock' = "voice_tick"
  /\ pc' = [pc EXCEPT !["voice_tick"] = "mux_push"]
  /\ running' = "voice_tick"
  /\ last' = [op |-> "act_mux_lock"]
  /\ UNCHANGED <<now, events, lookback_vars, ssrc_to_user, tts_vars, act_pending, buf_lock,
                 drain_packets, tts_lock, act_ref, speaking_event, mix_pending>>

\* the push into the accumulator, tts.push and the end of the iteration,
\* which drops the Ref
ActPush ==
  /\ running = "voice_tick"
  /\ pc["voice_tick"] = "mux_push"
  /\ LET e == Head(act_pending)
         speaking == (e.ssrc :> e.data)
     IN  \E accepted \in [Encoding([speaking |-> speaking], ssrc_to_user) -> BOOLEAN] :
           LET st == speaking_loop(<<e.ssrc>>, speaking, accepted, ssrc_to_user,
                                   [packet_buffer |-> packet_buffer,
                                    tts |-> [user_to_sound_packets |-> user_to_sound_packets,
                                             empty_encoded |-> tts_empty_encoded,
                                             pushed |-> tts_pushed]],
                                   act_ref[1].time)
           IN  /\ packet_buffer' = st.packet_buffer
               /\ user_to_sound_packets' = st.tts.user_to_sound_packets
               /\ tts_empty_encoded' = st.tts.empty_encoded
               /\ tts_pushed' = st.tts.pushed
  /\ acc_lock' = "free"
  /\ act_ref' = None
  /\ act_pending' = Tail(act_pending)
  /\ pc' = [pc EXCEPT !["voice_tick"] = "loop"]
  /\ last' = [op |-> "act_push"]
  /\ UNCHANGED <<now, events, mixer_alive, ticks, empty_encoded, buf, ssrc_to_user,
                 buf_lock, drain_packets, running, tts_lock, speaking_event, mix_pending>>

\* the end of the VoiceTick arm drops the write guard tts
ActLeave ==
  /\ running = "voice_tick"
  /\ pc["voice_tick"] = "loop"
  /\ act_pending = << >>
  /\ tts_lock' = "free"
  /\ pc' = [pc EXCEPT !["voice_tick"] = "idle"]
  /\ running' = "none"
  /\ last' = [op |-> "act_leave"]
  /\ UNCHANGED <<now, events, lookback_vars, ssrc_to_user, tts_vars, act_pending, buf_lock,
                 drain_packets, acc_lock, act_ref, speaking_event, mix_pending>>

\* act is entered with a SpeakingStateUpdate
SpeakingEnter(ssrc, user_id) ==
  /\ running = "none"
  /\ pc["speaking_state_update"] = "idle"
  /\ speaking_event' = Some([ssrc |-> ssrc, user_id |-> user_id])
  /\ pc' = [pc EXCEPT !["speaking_state_update"] = "insert"]
  /\ running' = "speaking_state_update"
  /\ last' = [op |-> "speaking_enter"]
  /\ UNCHANGED <<now, events, lookback_vars, ssrc_to_user, tts_vars, act_pending, buf_lock,
                 drain_packets, tts_lock, acc_lock, act_ref, mix_pending>>

\* DashMap::insert locks the shard of the key for writing, without an
\* .await: the thread waits in it while a Ref into the shard lives (a Ref
\* to the same key is in the same shard in every build)
can_insert(ref, ssrc) == IF ref = None THEN TRUE ELSE ref[1].ssrc # ssrc

SpeakingInsert ==
  /\ running = "speaking_state_update"
  /\ pc["speaking_state_update"] = "insert"
  /\ IF speaking_event[1].user_id = None THEN TRUE
     ELSE can_insert(act_ref, speaking_event[1].ssrc)
  /\ ssrc_to_user' = speaking_state_update(ssrc_to_user, speaking_event[1].ssrc,
                                           speaking_event[1].user_id)
  /\ speaking_event' = None
  /\ pc' = [pc EXCEPT !["speaking_state_update"] = "idle"]
  /\ running' = "none"
  /\ last' = [op |-> "speaking_insert"]
  /\ UNCHANGED <<now, events, lookback_vars, tts_vars, act_pending, buf_lock,
                 drain_packets, tts_lock, acc_lock, act_ref, mix_pending>>

\* interval.tick().await completes
MixerTick ==
  /\ running = "none"
  /\ pc["mixer"] = "tick"
  /\ mixer_alive
  /\ ticks < MaxMixerPolls
  /\ tick_due(ticks, now)
  /\ pc' = [pc EXCEPT !["mixer"] = "acc_lock"]
  /\ running' = "mixer"
  /\ last' = [op |-> "mixer_tick"]
  /\ UNCHANGED <<now, events, lookback_vars, ssrc_to_user, tts_vars, act_pending, buf_lock,
                 drain_packets, tts_lock, acc_lock, act_ref, speaking_event, mix_pending>>

\* `user_to_packet_buffer.lock().await` completes
MixerAccLock ==
  /\ can_poll("mixer")
  /\ pc["mixer"] = "acc_lock"
  /\ can_lock(acc_lock)
  /\ acc_lock' = "mixer"
  /\ pc' = [pc EXCEPT !["mixer"] = "fold"]
  /\ running' = "mixer"
  /\ last' = [op |-> "mixer_acc_lock"]
  /\ UNCHANGED <<now, events, lookback_vars, ssrc_to_user, tts_vars, act_pending, buf_lock,
                 drain_packets, tts_lock, act_ref, speaking_event, mix_pending>>

\* create_mixed_raw_buffer under the lock, then the encoding of the mix
MixerFold ==
  /\ running = "mixer"
  /\ pc["mixer"] = "fold"
  /\ \E m \in create_mixed_raw_buffer(packet_buffer, now), accepted \in BOOLEAN :
       LET encoded_vec ==
             IF m.ret = None THEN Some(empty_encoded)
             ELSE opus_encode(m.ret[1], accepted)
       IN  /\ packet_buffer' = m.packet_buffer
           /\ mix_pending' = encoded_vec
           /\ IF encoded_vec = None
              THEN /\ mixer_alive' = FALSE
                   /\ pc' = [pc EXCEPT !["mixer"] = "panicked"]
                   /\ running' = "none"
              ELSE /\ pc' = [pc EXCEPT !["mixer"] = "buf_lock"]
                   /\ UNCHANGED <<mixer_alive, running>>
  /\ acc_lock' = "free"
  /\ last' = [op |-> "mixer_fold"]
  /\ UNCHANGED <<now, events, ticks, empty_encoded, buf, ssrc_to_user, tts_vars,
                 act_pending, buf_lock, drain_packets, tts_lock, act_ref, speaking_event>>

\* `output_buffer.lock().await.push(encoded_vec)`, back to interval.tick()
MixerPush ==
  /\ can_poll("mixer")
  /\ pc["mixer"] = "buf_lock"
  /\ can_lock(buf_lock)
  /\ buf' = cq_push(buf, BUFFER_SIZE, [frame |-> mix_pending[1], seq |-> ticks + 1])
  /\ ticks' = ticks + 1
  /\ mix_pending' = None
  /\ pc' = [pc EXCEPT !["mixer"] = "tick"]
  /\ running' = "none"
  /\ last' = [op |-> "mixer_push"]
  /\ UNCHANGED <<now, events, packet_buffer, mixer_alive, empty_encoded, ssrc_to_user,
                 tts_vars, act_pending, buf_lock, drain_packets, tts_lock, acc_lock,
                 act_ref, speaking_event>>

\* drain_buffer polled when the thread is free: the lock is free at every
\* .await on one thread unless held by a suspended task
PollDrainBuffer(duration_to_dump, serial) ==
  /\ running = "none"
  /\ can_lock(buf_lock)
  /\ DrainBuffer(duration_to_dump, serial)

\* get_ogg_buffer needs the read guard of per_user_sound_buffer
PollGetOggBuffer(user, serial) ==
  /\ running = "none"
  /\ can_lock(tts_lock)
  /\ GetOggBuffer(user, serial)

\* ------------------------------------------------------------ encode on its own
\* A call of encode::<S_PS, NUM_CHANNELS> on n frames.
EncodeCall(n, S_PS, NUM_CHANNELS, serial) ==
  /\ last' = [op |-> "encode", S_PS |-> S_PS, NUM_CHANNELS |-> NUM_CHANNELS, n |-> n,
              ret |-> encode([k \in 1..n |-> [frame |-> empty_encoded, seq |-> k]],
                             S_PS, NUM_CHANNELS, serial)]
  /\ UNCHANGED <<now, events, lookback_vars, ssrc_to_user, tts_vars, task_vars>>

\* ------------------------------------------------------------ inputs
\* frames handed to add_sound_mux in the mixing specification
MuxFrames == {ConstFrame(10000), ConstFrame(20000), SplitFrame(30000, -30000)}

\* frames handed to add_sound_mux in the lookback specification
LookbackFrames == {ConstFrame(10000)}

Windows ==
  {None, Some(Millis(0)), Some(Millis(39)), Some(Millis(1000)),
   Some([wraps |-> 1, ms |-> 0])}

\* decoded_voice of one speaker: absent, a frame, a frame one sample short or long
Voices ==
  {None, Some(ConstFrame(10000)),
   Some([i \in 1..(AUDIO_PACKET_SIZE - 1) |-> 7]),
   Some([i \in 1..(AUDIO_PACKET_SIZE + 1) |-> 7])}

VoiceTicks ==
  {[speaking |-> sp, silent |-> si] :
     sp \in UNION {[S -> [decoded_voice : Voices]] : S \in SUBSET Ssrcs},
     si \in SUBSET Ssrcs}

UserIds == {None} \cup {Some(u) : u \in Users}

\* ------------------------------------------------------------ specifications
\* The lookback path: add_sound_mux, the mixer task and drain_buffer.
LookbackNext ==
  \/ Advance
  \/ \E packet \in LookbackFrames : AddSoundMux(packet)
  \/ MixTick
  \/ \E w \in Windows, serial \in Serials : DrainBuffer(w, serial)

SpecLookback == Init /\ [][LookbackNext]_vars

\* The mixer alone, fed with frames of every sign.
MixNext ==
  \/ Advance
  \/ \E packet \in MuxFrames : AddSoundMux(packet)
  \/ MixTick

SpecMix == Init /\ [][MixNext]_vars

\* The ingestion callback and the speaker rings.
IngestNext ==
  \/ \E ssrc \in Ssrcs, user_id \in UserIds : SpeakingStateUpdate(ssrc, user_id)
  \/ \E data \in VoiceTicks : data.silent \cap DOMAIN data.speaking = {} /\ VoiceTick(data)
  \/ \E user \in Users, serial \in Serials : GetOggBuffer(user, serial)

SpecIngest == Init /\ [][IngestNext]_vars

\* The packager alone, at the sample rates of Opus.
SampleRates == {8000, 12000, 16000, 24000, 48000}

EncodeNext ==
  \E n \in 0..MaxEncodeFrames, S_PS \in SampleRates, NUM_CHANNELS \in {1, 2},
     serial \in Serials : EncodeCall(n, S_PS, NUM_CHANNELS, serial)

SpecEncode == Init /\ [][EncodeNext]_vars

\* The packager called on its own and by the lookback drain.
PackagerNext ==
  \/ EncodeNext
  \/ \E w \in Windows, serial \in Serials : DrainBuffer(w, serial)

SpecPackager == Init /\ [][PackagerNext]_vars

\* The ingestion callback run entry by entry against the mixer task.
TransportNext ==
  \/ Advance
  \/ MixTick
  \/ \E ssrc \in Ssrcs : SpeakingStateUpdate(ssrc, Some(100 + ssrc))
  \/ \E S \in (SUBSET Ssrcs) \ {{}} : \E order \in Perms(S) : ActVoiceTickBegin(order)
  \/ ActVoiceTickStep

SpecTransport == Init /\ [][TransportNext]_vars

\* Both drains against the mixer task and the ingestion callback.
ReadTicks ==
  {[speaking |-> (1 :> [decoded_voice |-> Some(ConstFrame(10000))]), silent |-> {2}]}

ReadsNext ==
  \/ Advance
  \/ MixTick
  \/ \E ssrc \in Ssrcs : SpeakingStateUpdate(ssrc, Some(101))
  \/ \E data \in ReadTicks : VoiceTick(data)
  \/ \E serial \in Serials : DrainBuffer(None, serial)
  \/ \E user \in Users, serial \in Serials : GetOggBuffer(user, serial)

SpecReads == Init /\ [][ReadsNext]_vars

\* The mixer under its scheduling: the clock advances, and the interval of
\* the mixer task completes whenever a tick is due and the task is alive.
FoldNext ==
  \/ Advance
  \/ \E packet \in LookbackFrames : AddSoundMux(packet)
  \/ MixTick

SpecFold == Init /\ [][FoldNext]_vars /\ WF_vars(Advance) /\ WF_vars(MixTick)

\* drain_buffer run step by step against the mixer task (nothing ingested).
SnapshotNext ==
  \/ Advance
  \/ MixTick
  \/ DrainLock
  \/ DrainCopy
  \/ DrainUnlock
  \/ \E w \in Windows, serial \in Serials : DrainPackage(w, serial)

SpecSnapshot == Init /\ [][SnapshotNext]_vars

\* Every task of the program on the one thread of a current-thread runtime.
LocksNext ==
  \/ (now < MaxMixerPolls * PACKET_DURATION /\ Advance)
  \/ Yield
  \/ \E S \in (SUBSET Ssrcs) \ {{}} : \E order \in Perms(S) : ActEnter(order)
  \/ ActWriteLock
  \/ ActGet
  \/ ActMuxLock
  \/ ActPush
  \/ ActLeave
  \/ \E ssrc \in Ssrcs : SpeakingEnter(ssrc, Some(100 + ssrc))
  \/ SpeakingInsert
  \/ MixerTick
  \/ MixerAccLock
  \/ MixerFold
  \/ MixerPush
  \/ \E serial \in Serials : PollDrainBuffer(None, serial)
  \/ \E user \in Users, serial \in Serials : PollGetOggBuffer(user, serial)

SpecLocks == Init /\ [][LocksNext]_vars

\* The whole program.
Next ==
  \/ Advance
  \/ MixTick
  \/ \E w \in Windows, serial \in Serials : DrainBuffer(w, serial)
  \/ \E ssrc \in Ssrcs, user_id \in UserIds : SpeakingStateUpdate(ssrc, user_id)
  \/ \E data \in VoiceTicks : data.silent \cap DOMAIN data.speaking = {} /\ VoiceTick(data)
  \/ \E user \in Users, serial \in Serials : GetOggBuffer(user, serial)

Spec == Init /\ [][Next]_vars

\* ------------------------------------------------------------ helpers of the claims
Min(a, b) == IF a <= b THEN a ELSE b

\* the packets of a stream after its two header packets
DataPackets(stream) == SubSeq(stream, 3, Len(stream))

DrainedBuffer == last.op = "drain_buffer"

\* ------------------------------------------------------------ C1
\* C1: after t iterations of the mixer loop the lookback ring holds exactly
\* min(t, BUFFER_SIZE) frames, whatever add_sound_mux calls and drains came
\* between them.
C1_RingHoldsMinTicksCapacity == Len(buf) = Min(ticks, BUFFER_SIZE)

\* the ring is full, later ticks have run, frames were ingested and a drain ran
C1_Witness ==
  /\ ticks > BUFFER_SIZE
  /\ Len(buf) = BUFFER_SIZE
  /\ events > 0
  /\ DrainedBuffer

\* ------------------------------------------------------------ C2
\* C2: a snapshot taken by drain_buffer (no window) after n pushes holds
\* exactly the frames of the last min(n, BUFFER_SIZE) pushes, oldest first.
C2_SnapshotIsLastPushesInOrder ==
  (DrainedBuffer /\ last.duration_to_dump = None) =>
    LET data == DataPackets(last.ret)
    IN  /\ Len(data) = Min(ticks, BUFFER_SIZE)
        /\ \A i \in 1..Len(data) :
             /\ data[i].data.seq = ticks - Len(data) + i
             /\ data[i].data = buf[i]

\* a snapshot taken after the frames of the first two ticks were evicted
C2_Witness ==
  /\ DrainedBuffer
  /\ last.duration_to_dump = None
  /\ ticks = BUFFER_SIZE + 2
  /\ DataPackets(last.ret)[1].data.seq = 3

\* ------------------------------------------------------------ C3
\* C3: every speaker ring holds at most TTS_BUFFER_SIZE frames; a push into
\* a full ring evicts the oldest frame: the ring holds the newest
\* min(pushes, TTS_BUFFER_SIZE) frames in push order.
C3_SpeakerRingBounded ==
  \A u \in DOMAIN user_to_sound_packets :
    LET q == user_to_sound_packets[u]
    IN  /\ Len(q) <= TTS_BUFFER_SIZE
        /\ Len(q) = Min(tts_pushed[u], TTS_BUFFER_SIZE)
        /\ \A i \in 1..Len(q) : q[i].seq = tts_pushed[u] - Len(q) + i

\* a VoiceTick pushed into a speaker ring that was full
C3_Witness ==
  /\ last.op = "voice_tick"
  /\ \E u \in DOMAIN user_to_sound_packets :
       /\ tts_pushed[u] > TTS_BUFFER_SIZE
       /\ Len(user_to_sound_packets[u]) = TTS_BUFFER_SIZE

\* ------------------------------------------------------------ C4
\* the frames packaged by the drain that ran last
DrainedFrames ==
  [i \in 1..Len(DataPackets(last.ret)) |-> DataPackets(last.ret)[i].data]

\* the last n entries of q (all of them when n > Len(q))
FinalFrames(q, n) == SubSeq(q, Len(q) - Min(n, Len(q)) + 1, Len(q))

\* floor(window_ms / 20) of the Duration d is greater than n
FrameCountExceeds(d, n) == d.wraps > 0 \/ d.ms \div PACKET_DURATION > n

\* C4: drain_buffer(window) packages exactly the final floor(window_ms / 20)
\* frames of the snapshot, in order; all of them when that count exceeds
\* the ring's occupancy or when the window is absent.
C4_DrainPackagesFinalWindowFrames ==
  DrainedBuffer =>
    LET w == last.duration_to_dump
    IN  IF w = None \/ FrameCountExceeds(w[1], Len(buf))
        THEN DrainedFrames = buf
        ELSE DrainedFrames = FinalFrames(buf, w[1].ms \div PACKET_DURATION)

\* C4 holds of every window of fewer than 2^64 frames
C4_HoldsBelowUsizeRange ==
  (DrainedBuffer /\ (last.duration_to_dump = None \/ last.duration_to_dump[1].wraps = 0))
    => C4_DrainPackagesFinalWindowFrames

\* ------------------------------------------------------------ C5
\* C5: a drain with window = 0 returns the two header packets and no data
\* packet, whatever the ring holds.
C5_ZeroWindowIsHeadersOnly ==
  (DrainedBuffer /\ last.duration_to_dump = Some(Millis(0))) =>
    /\ Len(last.ret) = 2
    /\ SubSeq(last.ret[1].data, 1, 8) = <<79, 112, 117, 115, 72, 101, 97, 100>>
    /\ SubSeq(last.ret[2].data, 1, 8) = <<79, 112, 117, 115, 84, 97, 103, 115>>
    /\ \A i \in 1..2 : last.ret[i].inf = "EndPage" /\ last.ret[i].absgp = 0

\* a zero-window drain of a full ring
C5_Witness ==
  /\ DrainedBuffer
  /\ last.duration_to_dump = Some(Millis(0))
  /\ Len(buf) = BUFFER_SIZE

\* ------------------------------------------------------------ C6
MixedTick == last.op = "mix" /\ last.consumed # << >>

Clamp16(x) == IF x > 32767 THEN 32767 ELSE IF x < -32768 THEN -32768 ELSE x

\* the left fold of clamped addition over the numbers xs, from acc
RECURSIVE FoldSamples(_, _)
FoldSamples(xs, acc) ==
  IF xs = << >> THEN acc ELSE FoldSamples(Tail(xs), Clamp16(acc + Head(xs)))

\* the mix of the packets c folded in the order p (a permutation of 1..Len(c))
MixInOrder(c, p) ==
  [i \in 1..AUDIO_PACKET_SIZE |->
     FoldSamples([k \in 1..Len(c) |-> c[p[k]].packet[i]], 0)]

Identity(n) == [k \in 1..n |-> k]

\* C6: the mixed frame of a tick is, at every sample index, the left fold
\* from 0 of saturating 16-bit addition over the frames consumed in that
\* tick, in the order they were popped; 10000 and 20000 give 30000, 30000
\* and 20000 give 32767.
C6_MixIsSaturatingLeftFold ==
  MixedTick =>
    LET c == last.consumed
        mix == last.mix_buf[1]
    IN  /\ last.mix_buf # None
        /\ mix = MixInOrder(c, Identity(Len(c)))
        /\ \A i \in 1..AUDIO_PACKET_SIZE :
             /\ (Len(c) = 2 /\ {c[1].packet[i], c[2].packet[i]} = {10000, 20000})
                  => mix[i] = 30000
             /\ (Len(c) = 2 /\ {c[1].packet[i], c[2].packet[i]} = {30000, 20000})
                  => mix[i] = 32767

\* a tick folded 30000 and 20000 at one index and -30000 and 20000 at another
C6_Witness ==
  /\ MixedTick
  /\ Len(last.consumed) = 2
  /\ last.consumed[1].packet = SplitFrame(30000, -30000)
  /\ last.consumed[2].packet = ConstFrame(20000)
  /\ last.mix_buf[1] = SplitFrame(32767, -10000)

\* ------------------------------------------------------------ C7
\* C7 as stated: every permutation of the fold order yields the mixed frame.
C7_FoldOrderIrrelevant ==
  MixedTick =>
    \A p \in Perms(1..Len(last.consumed)) :
      MixInOrder(last.consumed, p) = last.mix_buf[1]

\* at every sample index the samples of the packets c have one sign
OneSigned(c) ==
  \A i \in 1..AUDIO_PACKET_SIZE :
    \/ \A k \in 1..Len(c) : c[k].packet[i] >= 0
    \/ \A k \in 1..Len(c) : c[k].packet[i] <= 0

\* C7 (amended): the fold order is irrelevant for at most two frames and
\* for frames whose samples at each index are all non-negative or all
\* non-positive.
C7_FoldOrderIrrelevantOneSigned ==
  (MixedTick /\ (Len(last.consumed) <= 2 \/ OneSigned(last.consumed))) =>
    \A p \in Perms(1..Len(last.consumed)) :
      MixInOrder(last.consumed, p) = last.mix_buf[1]

\* three frames of one sign, not all equal, whose sum saturates
C7_Witness ==
  /\ MixedTick
  /\ Len(last.consumed) = 3
  /\ OneSigned(last.consumed)
  /\ last.consumed[1].packet # last.consumed[2].packet
  /\ \E i \in 1..AUDIO_PACKET_SIZE : last.mix_buf[1][i] = 32767

\* ------------------------------------------------------------ C8
\* C8: a tick that consumes no frame pushes the silent frame encoded at
\* task start and does not call the encoder; that frame is never replaced.
C8_EmptyTickPushesSilentFrame ==
  /\ empty_encoded = [opus |-> [i \in 1..AUDIO_PACKET_SIZE |-> 0]]
  /\ (last.op = "mix" /\ last.consumed = << >>) =>
       /\ ~last.encoder_called
       /\ last.pushed = Some(empty_encoded)
       /\ Last(buf) = [frame |-> empty_encoded, seq |-> ticks]

\* an empty tick while the accumulator holds frames too recent to fold
C8_Witness ==
  /\ last.op = "mix"
  /\ last.consumed = << >>
  /\ packet_buffer # EmptyBag
  /\ ticks > 1

\* ------------------------------------------------------------ C9
DrainedSpeaker == last.op = "get_ogg_buffer"

\* the ssrcs of S that the table map resolves to the user u
MappedTo(map, S, u) == {ssrc \in S : ssrc \in DOMAIN map /\ map[ssrc] = u}

\* C9: when N <= TTS_BUFFER_SIZE frames were pushed for a speaker, draining
\* the speaker yields exactly N data packets, in push order, with granule
\* positions 960, 1920, ..., 960 * N, the last one marked end-of-stream and
\* no other; a valid frame ingested for the speaker's ssrc is pushed as its
\* encoding (as the silent frame when the codec rejects it).
C9_SpeakerDrainPacketsAndGranules ==
  /\ (DrainedSpeaker /\ last.ret # None /\ tts_pushed[last.user] <= TTS_BUFFER_SIZE) =>
       LET data == DataPackets(last.ret[1])
           n == tts_pushed[last.user]
       IN  /\ Len(data) = n
           /\ \A i \in 1..Len(data) :
                /\ data[i].absgp = 960 * i
                /\ data[i].inf = IF i = n THEN "EndStream" ELSE "NormalPacket"
                /\ data[i].data.seq = i
                /\ data[i].data = user_to_sound_packets[last.user][i]
  /\ last.op = "voice_tick" =>
       \A u \in Users :
         \A ssrc \in MappedTo(ssrc_to_user, DOMAIN last.data.speaking, u) :
           LET voice == last.data.speaking[ssrc].decoded_voice
           IN  ( /\ MappedTo(ssrc_to_user, DOMAIN last.data.speaking \cup last.data.silent, u)
                      = {ssrc}
                 /\ voice # None
                 /\ Len(voice[1]) = AUDIO_PACKET_SIZE ) =>
                   Last(user_to_sound_packets[u]).frame =
                     IF last.accepted[ssrc] THEN [opus |-> voice[1]] ELSE tts_empty_encoded

\* the speaker was registered, one valid frame was ingested in each of two
\* VoiceTicks, both were encoded, and the speaker was drained
C9_Witness ==
  /\ DrainedSpeaker
  /\ last.ret # None
  /\ events = 2
  /\ tts_pushed[last.user] = 2
  /\ \A i \in 1..2 :
       user_to_sound_packets[last.user][i].frame = [opus |-> ConstFrame(10000)]
  /\ DataPackets(last.ret[1])[2].absgp = 1920

\* ------------------------------------------------------------ C10
\* C10: a VoiceTick pushes, for each ssrc of its silent set that is mapped
\* to a user, exactly one silent frame into that user's ring (created if
\* absent), after the frames of its speaking map; the accumulator grows by
\* the valid frames of the mapped speaking ssrcs only, so a silence marker
\* adds nothing to it.
C10_SilentSsrcsPushSilenceOnly ==
  [][(last'.op = "voice_tick" /\ events' = events + 1) =>
       LET d == last'.data
           valid == {ssrc \in DOMAIN d.speaking :
                       /\ ssrc \in DOMAIN ssrc_to_user
                       /\ d.speaking[ssrc].decoded_voice # None
                       /\ Len(d.speaking[ssrc].decoded_voice[1]) = AUDIO_PACKET_SIZE}
       IN  /\ BagCardinality(packet_buffer')
                = BagCardinality(packet_buffer) + Cardinality(valid)
           /\ (valid = {} => packet_buffer' = packet_buffer)
           /\ \A u \in Users :
                LET k == Cardinality(MappedTo(ssrc_to_user, d.silent, u))
                    sp == Cardinality(MappedTo(ssrc_to_user, DOMAIN d.speaking, u))
                IN  /\ tts_pushed'[u] = tts_pushed[u] + sp + k
                    /\ k > 0 =>
                         /\ u \in DOMAIN user_to_sound_packets'
                         /\ \A i \in 1..Len(user_to_sound_packets'[u]) :
                              user_to_sound_packets'[u][i].seq > tts_pushed'[u] - k =>
                                user_to_sound_packets'[u][i].frame = tts_empty_encoded
  ]_vars

\* a VoiceTick whose silent set names a mapped ssrc created that user's
\* ring with one silent frame and left the accumulator empty
C10_Witness ==
  /\ last.op = "voice_tick"
  /\ packet_buffer = EmptyBag
  /\ \E ssrc \in last.data.silent :
       /\ ssrc \in DOMAIN ssrc_to_user
       /\ tts_pushed[ssrc_to_user[ssrc]] = 1
       /\ user_to_sound_packets[ssrc_to_user[ssrc]]
            = <<[frame |-> tts_empty_encoded, seq |-> 1]>>

\* ------------------------------------------------------------ C11
VoiceTickStep == last'.op = "voice_tick" /\ events' = events + 1

\* the frame of a speaking entry is absent or not AUDIO_PACKET_SIZE long
Unusable(entry) ==
  entry.decoded_voice = None \/ Len(entry.decoded_voice[1]) # AUDIO_PACKET_SIZE

\* the ring q after the frames fs were pushed as pushes n0 + 1, n0 + 2, ...
RingAfter(q, fs, n0) ==
  FinalFrames(q \o [j \in 1..Len(fs) |-> [frame |-> fs[j], seq |-> n0 + j]],
              TTS_BUFFER_SIZE)

RingOf(t, u) == IF u \in DOMAIN t THEN t[u] ELSE << >>

\* C11: a mapped speaker of the speaking map whose decoded_voice is absent
\* or of the wrong length gets the silent frame pushed into its ring: when
\* it is the user's only entry of the tick, the ring is the old ring with
\* one silent frame pushed.
C11_UnusableFramePushesSilence ==
  [][VoiceTickStep =>
       \A u \in Users :
         \A ssrc \in MappedTo(ssrc_to_user, DOMAIN last'.data.speaking, u) :
           ( /\ MappedTo(ssrc_to_user, DOMAIN last'.data.speaking \cup last'.data.silent, u)
                  = {ssrc}
             /\ Unusable(last'.data.speaking[ssrc]) ) =>
               /\ u \in DOMAIN user_to_sound_packets'
               /\ tts_pushed'[u] = tts_pushed[u] + 1
               /\ user_to_sound_packets'[u]
                    = RingAfter(RingOf(user_to_sound_packets, u),
                                <<tts_empty_encoded>>, tts_pushed[u])
  ]_vars

\* one mapped speaker without decoded_voice and one with a short frame,
\* each with a ring holding the silent frame
C11_Witness ==
  /\ last.op = "voice_tick"
  /\ DOMAIN last.data.speaking = Ssrcs
  /\ last.data.speaking[1].decoded_voice = None
  /\ last.data.speaking[2].decoded_voice # None
  /\ Len(last.data.speaking[2].decoded_voice[1]) = AUDIO_PACKET_SIZE - 1
  /\ Ssrcs \subseteq DOMAIN ssrc_to_user
  /\ ssrc_to_user[1] # ssrc_to_user[2]
  /\ \A u \in Users :
       /\ u \in DOMAIN user_to_sound_packets
       /\ Last(user_to_sound_packets[u]).frame = tts_empty_encoded
       /\ tts_pushed[u] = 1

\* ------------------------------------------------------------ C12
\* a VoiceTick that carries frames of the wrong length only
WrongLengthTick(d) ==
  /\ d.silent = {}
  /\ DOMAIN d.speaking # {}
  /\ \A ssrc \in DOMAIN d.speaking :
       /\ d.speaking[ssrc].decoded_voice # None
       /\ Len(d.speaking[ssrc].decoded_voice[1]) # AUDIO_PACKET_SIZE

\* C12 as stated: ingesting frames of the wrong length leaves the lookback
\* ring, the accumulator and every speaker ring unchanged.
C12_WrongLengthLeavesRingsUnchanged ==
  [][(VoiceTickStep /\ WrongLengthTick(last'.data)) =>
       /\ buf' = buf
       /\ packet_buffer' = packet_buffer
       /\ user_to_sound_packets' = user_to_sound_packets
  ]_vars

\* C12 (amended): ingesting frames of the wrong length leaves the lookback
\* ring and the accumulator unchanged; the ring of a user to whom such an
\* ssrc is mapped receives one silent frame per such ssrc, and no other
\* ring is changed or created.
C12_WrongLengthPushesSilenceOnly ==
  [][(VoiceTickStep /\ WrongLengthTick(last'.data)) =>
       /\ buf' = buf
       /\ packet_buffer' = packet_buffer
       /\ mixer_alive' = mixer_alive
       /\ \A u \in Users :
            LET k == Cardinality(MappedTo(ssrc_to_user, DOMAIN last'.data.speaking, u))
            IN  IF k = 0
                THEN /\ (u \in DOMAIN user_to_sound_packets')
                           = (u \in DOMAIN user_to_sound_packets)
                     /\ RingOf(user_to_sound_packets', u) = RingOf(user_to_sound_packets, u)
                ELSE /\ u \in DOMAIN user_to_sound_packets'
                     /\ user_to_sound_packets'[u]
                          = RingAfter(RingOf(user_to_sound_packets, u),
                                      [j \in 1..k |-> tts_empty_encoded], tts_pushed[u])
  ]_vars

\* a long frame on a mapped ssrc and a short frame on an unmapped one: the
\* mapped user's ring holds one silent frame, nothing else exists
C12_Witness ==
  /\ last.op = "voice_tick"
  /\ WrongLengthTick(last.data)
  /\ DOMAIN last.data.speaking = Ssrcs
  /\ \E ssrc \in Ssrcs :
       /\ DOMAIN ssrc_to_user = {ssrc}
       /\ Len(last.data.speaking[ssrc].decoded_voice[1]) = AUDIO_PACKET_SIZE + 1
       /\ user_to_sound_packets
            = (ssrc_to_user[ssrc] :> <<[frame |-> tts_empty_encoded, seq |-> 1]>>)
  /\ packet_buffer = EmptyBag

\* ------------------------------------------------------------ C13
\* C13: a VoiceTick entry, speaking or silent, for an ssrc without a
\* mapping changes no speaker ring and creates none: a user none of whose
\* ssrcs is in the tick keeps its ring (or the lack of it), and a tick of
\* unmapped ssrcs only leaves the whole speaker table as it was.
C13_UnmappedSsrcTouchesNoRing ==
  [][VoiceTickStep =>
       LET entries == DOMAIN last'.data.speaking \cup last'.data.silent
       IN  /\ \A u \in Users :
                MappedTo(ssrc_to_user, entries, u) = {} =>
                  /\ (u \in DOMAIN user_to_sound_packets')
                        = (u \in DOMAIN user_to_sound_packets)
                  /\ RingOf(user_to_sound_packets', u) = RingOf(user_to_sound_packets, u)
                  /\ tts_pushed'[u] = tts_pushed[u]
           /\ (entries \cap DOMAIN ssrc_to_user = {}) =>
                /\ user_to_sound_packets' = user_to_sound_packets
                /\ tts_pushed' = tts_pushed
  ]_vars

\* in the second tick an unmapped ssrc spoke a valid frame and another
\* unmapped ssrc was marked silent; no ring was created
C13_Witness ==
  /\ last.op = "voice_tick"
  /\ \E ssrc \in DOMAIN last.data.speaking :
       /\ ssrc \notin DOMAIN ssrc_to_user
       /\ last.data.speaking[ssrc].decoded_voice = Some(ConstFrame(10000))
  /\ \E ssrc \in last.data.silent : ssrc \notin DOMAIN ssrc_to_user
  /\ user_to_sound_packets = << >>
  /\ events = 2

\* ------------------------------------------------------------ C14
\* C14: a valid frame of a VoiceTick is handed to the accumulator whether
\* or not its ssrc has a mapping.
C14_UnmappedFrameReachesAccumulator ==
  last.op = "voice_tick" =>
    \A ssrc \in DOMAIN last.data.speaking :
      LET voice == last.data.speaking[ssrc].decoded_voice
      IN  (voice # None /\ Len(voice[1]) = AUDIO_PACKET_SIZE) =>
            [packet |-> voice[1], time |-> now] \in BagToSet(packet_buffer)

\* ------------------------------------------------------------ C15
\* C15: draining a speaker without a ring returns an error and no stream,
\* draining a speaker with a ring returns a stream whose data packets are
\* exactly that ring's frames, oldest first; either way the drain leaves
\* the ssrc table, the speaker table and every ring unchanged.
C15_SpeakerDrainErrOrRing ==
  [][last'.op = "get_ogg_buffer" =>
       /\ ssrc_to_user' = ssrc_to_user
       /\ user_to_sound_packets' = user_to_sound_packets
       /\ tts_pushed' = tts_pushed
       /\ buf' = buf
       /\ packet_buffer' = packet_buffer
       /\ IF last'.user \in DOMAIN user_to_sound_packets
          THEN /\ last'.ret # None
               /\ [i \in 1..Len(DataPackets(last'.ret[1])) |->
                     DataPackets(last'.ret[1])[i].data]
                    = user_to_sound_packets[last'.user]
          ELSE last'.ret = None
  ]_vars

\* a drain of a user who has a mapping but no ring, while the other
\* user's ring exists, returned the error
C15_Witness ==
  /\ DrainedSpeaker
  /\ last.ret = None
  /\ \E ssrc \in DOMAIN ssrc_to_user : ssrc_to_user[ssrc] = last.user
  /\ last.user \notin DOMAIN user_to_sound_packets
  /\ \E u \in DOMAIN user_to_sound_packets : Len(user_to_sound_packets[u]) = TTS_BUFFER_SIZE

\* ------------------------------------------------------------ C16
\* C16: when the codec rejects the mix of a tick, the silent frame is
\* pushed in its place and the mixer task keeps running.
C16_MixerSurvivesEncoderRejection ==
  /\ mixer_alive
  /\ (last.op = "mix" /\ last.rejected) =>
       /\ last.pushed = Some(empty_encoded)
       /\ Last(buf) = [frame |-> empty_encoded, seq |-> ticks]

\* ------------------------------------------------------------ C17
\* C17: after any sequence of SpeakingStateUpdates every user is the value
\* of at most one entry of the ssrc table (mapping a user to a new ssrc
\* removes the entry of its old ssrc).
C17_UserMappedFromOneSsrc ==
  \A u \in Users : Cardinality(MappedTo(ssrc_to_user, Ssrcs, u)) <= 1

\* ------------------------------------------------------------ C18
\* C18: a stream emitted by encode is the OpusHead packet, the OpusTags
\* packet, each ending its page with granule 0, then one packet per input
\* frame in input order; the packet of the last frame is marked
\* end-of-stream, no other packet is, and it is the last packet written.
C18_StreamLayout ==
  DrainedBuffer =>
    LET stream == last.ret
        n == Len(stream) - 2
    IN  /\ n >= 0
        /\ Len(stream[1].data) = 19
        /\ SubSeq(stream[1].data, 1, 10)
             = <<79, 112, 117, 115, 72, 101, 97, 100, 1, 2>>
        /\ SubSeq(stream[2].data, 1, 8) = <<79, 112, 117, 115, 84, 97, 103, 115>>
        /\ \A i \in 1..2 : stream[i].inf = "EndPage" /\ stream[i].absgp = 0
        /\ \A i \in 1..Len(stream) : stream[i].serial = stream[1].serial
        /\ (last.duration_to_dump = None => n = Len(buf))
        /\ \A i \in 1..n : stream[2 + i].data = buf[Len(buf) - n + i]
        /\ \A i \in 1..n :
             stream[2 + i].inf = IF i = n THEN "EndStream" ELSE "NormalPacket"
        /\ \A i \in 1..Len(stream) : stream[i].inf = "EndStream" => i = Len(stream)

\* a drain of a full ring packaged every frame
C18_Witness ==
  /\ DrainedBuffer
  /\ Len(buf) = BUFFER_SIZE
  /\ Len(last.ret) = 2 + BUFFER_SIZE
  /\ Last(last.ret).inf = "EndStream"
  /\ last.ret[3].inf = "NormalPacket"

\* ------------------------------------------------------------ C19
\* C19: the data packet of the frame of zero-based index i has the granule
\* ((i + 1) * samples_per_frame * 48000) / sample_rate with
\* samples_per_frame = (sample_rate * 20) / 1000, which is (i + 1) * 960 at
\* 48 kHz; the granules are strictly increasing and are positive multiples
\* of 960.
C19_GranulePositions ==
  last.op = "encode" =>
    LET data == DataPackets(last.ret)
        sample_rate == last.S_PS
        samples_per_frame == (sample_rate * 20) \div 1000
    IN  /\ Len(data) = last.n
        /\ \A i \in 0..(Len(data) - 1) :
             /\ data[i + 1].absgp = ((i + 1) * samples_per_frame * 48000) \div sample_rate
             /\ sample_rate = 48000 => data[i + 1].absgp = (i + 1) * 960
             /\ data[i + 1].absgp > 0
             /\ data[i + 1].absgp % 960 = 0
        /\ \A i, j \in 1..Len(data) : i < j => data[i].absgp < data[j].absgp

\* MaxEncodeFrames frames packaged at 8 kHz: the last granule is scaled to
\* the 48 kHz clock
C19_Witness ==
  /\ last.op = "encode"
  /\ last.S_PS = 8000
  /\ last.n = MaxEncodeFrames
  /\ Last(last.ret).absgp = 960 * MaxEncodeFrames

\* ------------------------------------------------------------ C20
\* the number whose little-endian bytes are bs
RECURSIVE le_value(_)
le_value(bs) == IF bs = << >> THEN 0 ELSE Head(bs) + 256 * le_value(Tail(bs))

\* C20: the payload of the comment header is 'OpusTags', the 4-byte
\* little-endian length of the vendor string, the vendor string, and a
\* 4-byte little-endian user-comment count of 0: 8 + 4 + len(vendor) + 4
\* bytes.
C20_CommentHeaderLayout ==
  DrainedBuffer =>
    LET tags == last.ret[2].data
        vendor_len == le_value(SubSeq(tags, 9, 12))
    IN  /\ SubSeq(tags, 1, 8) = <<79, 112, 117, 115, 84, 97, 103, 115>>
        /\ Len(tags) = 8 + 4 + vendor_len + 4
        /\ SubSeq(tags, 8 + 4 + vendor_len + 1, Len(tags)) = <<0, 0, 0, 0>>

\* ------------------------------------------------------------ C21
\* C21: the identification header is 19 bytes: 'OpusHead', version 1, the
\* channel count, pre-skip 0 (2 bytes), the sample rate as 4 little-endian
\* bytes, output gain 0 (2 bytes), channel map family 0; a drain passes 2
\* channels and 48000 Hz.
C21_IdentificationHeaderLayout ==
  (last.op \in {"encode", "drain_buffer"} \/ (DrainedSpeaker /\ last.ret # None)) =>
    LET stream == IF DrainedSpeaker THEN last.ret[1] ELSE last.ret
        h == stream[1].data
        channels == IF last.op = "encode" THEN last.NUM_CHANNELS ELSE 2
        rate == IF last.op = "encode" THEN last.S_PS ELSE 48000
    IN  /\ Len(h) = 19
        /\ SubSeq(h, 1, 8) = <<79, 112, 117, 115, 72, 101, 97, 100>>
        /\ h[9] = 1
        /\ h[10] = channels
        /\ SubSeq(h, 11, 12) = <<0, 0>>
        /\ \A k \in 13..16 : h[k] \in 0..255
        /\ le_value(SubSeq(h, 13, 16)) = rate
        /\ SubSeq(h, 17, 18) = <<0, 0>>
        /\ h[19] = 0

\* a mono stream at 24 kHz: the rate bytes are C0 5D 00 00
C21_Witness ==
  /\ last.op = "encode"
  /\ last.NUM_CHANNELS = 1
  /\ last.S_PS = 24000
  /\ SubSeq(last.ret[1].data, 10, 16) = <<1, 0, 0, 192, 93, 0, 0>>

\* ------------------------------------------------------------ C22
\* a stream without the serials of its packets
StripSerial(stream) ==
  [i \in 1..Len(stream) |->
     [data |-> stream[i].data, inf |-> stream[i].inf, absgp |-> stream[i].absgp]]

CaughtUp == ticks * PACKET_DURATION > now

\* a drain without a window of a program that ingested nothing, taken when
\* the mixer had caught up
QuietDrain ==
  /\ DrainedBuffer
  /\ last.duration_to_dump = None
  /\ events = 0
  /\ CaughtUp

\* C23 as stated: the ring holds one frame per 20 ms elapsed since the
\* start; a drain 40 ms after the start, nothing ingested, yields exactly
\* 2 data packets, silent frames, the last marked end-of-stream with
\* granule 1920.
C23_OneFramePerElapsedPeriod ==
  (QuietDrain /\ now = 40) =>
    LET data == DataPackets(last.ret)
    IN  /\ Len(data) = now \div PACKET_DURATION
        /\ Len(data) = 2
        /\ \A i \in 1..Len(data) : data[i].data.frame = empty_encoded
        /\ Last(last.ret).inf = "EndStream"
        /\ Last(last.ret).absgp = 1920

\* C23 (amended): the first tick completes at the start, so the ring never
\* holds more than one frame per 20 ms elapsed plus one, and holds exactly
\* that many (up to its capacity) once the mixer has caught up and nothing
\* was ingested; a drain 40 ms after the start then yields 3 data
\* packets, silent frames, the last marked end-of-stream with granule 2880.
C23_OneFramePerPeriodPlusFirst ==
  /\ ticks <= (now \div PACKET_DURATION) + 1
  /\ Len(buf) <= Min((now \div PACKET_DURATION) + 1, BUFFER_SIZE)
  /\ QuietDrain =>
       LET data == DataPackets(last.ret)
       IN  /\ Len(data) = Min((now \div PACKET_DURATION) + 1, BUFFER_SIZE)
           /\ \A i \in 1..Len(data) : data[i].data.frame = empty_encoded
           /\ Last(last.ret).inf = "EndStream"
           /\ Last(last.ret).absgp = 960 * Len(data)
           /\ now = 40 => Len(data) = 3 /\ Last(last.ret).absgp = 2880

\* the drain 40 ms after the start
C23_Witness ==
  /\ QuietDrain
  /\ now = 40
  /\ ticks = 3
  /\ Len(DataPackets(last.ret)) = 3

\* ------------------------------------------------------------ C24
\* C24 as stated: right after a mixer tick has run create_mixed_raw_buffer
\* the accumulator holds no frame.
C24_AccumulatorClearedByTick ==
  last.op = "mix" => packet_buffer = EmptyBag

\* C24 (amended): right after a mixer tick at time now the accumulator
\* holds no frame that arrived earlier than now - 40 ms; the frames of the
\* last 40 ms may remain.
C24_AccumulatorKeepsRecentOnly ==
  last.op = "mix" =>
    \A p \in BagToSet(packet_buffer) : p.time >= now - 2 * PACKET_DURATION

\* a tick folded the old frames and left a recent one in the accumulator
C24_Witness ==
  /\ last.op = "mix"
  /\ Len(last.consumed) = 2
  /\ packet_buffer # EmptyBag

\* ------------------------------------------------------------ C25
\* the VoiceTick and the ssrc of an accumulator entry made of a TransportFrame
TickOf(p) == p.packet[1] \div 10
SsrcOf(p) == p.packet[1] % 10

\* C25: the frames of one VoiceTick are folded into one mixed frame (a
\* tick that folds one of them leaves none of them in the accumulator or
\* still to be handed over), and no mixed frame holds two frames of one
\* speaker from different VoiceTicks.
C25_SameVoiceTickSameMix ==
  (last.op = "mix" /\ ~last.rejected) =>
    /\ \A i, j \in 1..Len(last.consumed) :
         SsrcOf(last.consumed[i]) = SsrcOf(last.consumed[j]) =>
           TickOf(last.consumed[i]) = TickOf(last.consumed[j])
    /\ \A i \in 1..Len(last.consumed) :
         /\ \A p \in BagToSet(packet_buffer) : TickOf(p) # TickOf(last.consumed[i])
         /\ \A k \in 1..Len(act_pending) :
              act_pending[k].ssrc \in DOMAIN ssrc_to_user =>
                events # TickOf(last.consumed[i])

\* ------------------------------------------------------------ C26
\* C26: only the mixer task changes the lookback ring, only the ingestion
\* callback changes the ssrc table, the speaker table and the speaker
\* rings; a drain of either kind changes none of them nor the accumulator,
\* and two drains in a row package the same frames.
C26_DrainsArePureReads ==
  [][ /\ buf' # buf => last'.op = "mix"
      /\ (user_to_sound_packets' # user_to_sound_packets \/ tts_pushed' # tts_pushed)
           => last'.op = "voice_tick"
      /\ ssrc_to_user' # ssrc_to_user => last'.op = "speaking_state_update"
      /\ last'.op \in {"drain_buffer", "get_ogg_buffer"} =>
           /\ buf' = buf
           /\ ticks' = ticks
           /\ packet_buffer' = packet_buffer
           /\ ssrc_to_user' = ssrc_to_user
           /\ user_to_sound_packets' = user_to_sound_packets
           /\ tts_pushed' = tts_pushed
      /\ (last.op = "drain_buffer" /\ last'.op = "drain_buffer"
           /\ last'.duration_to_dump = last.duration_to_dump) =>
             StripSerial(last'.ret) = StripSerial(last.ret)
      /\ (last.op = "get_ogg_buffer" /\ last'.op = "get_ogg_buffer"
           /\ last'.user = last.user /\ last.ret # None) =>
             /\ last'.ret # None
             /\ StripSerial(last'.ret[1]) = StripSerial(last.ret[1])
  ]_vars

\* a lookback drain of a full ring while the accumulator and a speaker
\* ring hold frames
C26_Witness ==
  /\ DrainedBuffer
  /\ Len(DataPackets(last.ret)) = BUFFER_SIZE
  /\ packet_buffer # EmptyBag
  /\ user_to_sound_packets # << >>

\* ------------------------------------------------------------ C27
\* the frames fs are pushes of consecutive ticks
ConsecutiveTicks(fs) == \A i \in 1..Len(fs) : fs[i].seq = fs[1].seq + i - 1

\* the frames fs are the whole ring as it was right after the push of
\* their last frame (the empty ring before the first push)
RingAtOneInstant(fs) ==
  /\ ConsecutiveTicks(fs)
  /\ fs # << >> =>
       /\ Last(fs).seq <= ticks
       /\ Len(fs) = Min(Last(fs).seq, BUFFER_SIZE)
       /\ \A i \in 1..Len(fs) : \A k \in 1..Len(buf) :
            buf[k].seq = fs[i].seq => buf[k] = fs[i]

\* C27: the frames a drain clones and packages are the ring's contents at
\* one instant between two pushes: while the drain holds the lock its
\* copy is a prefix of the unchanged ring, the finished copy is a whole
\* ring of consecutive ticks, and the packaged frames are its tail.
C27_SnapshotNeverTears ==
  /\ (drain_packets # None /\ buf_lock = "drain_buffer") =>
       drain_packets[1] = SubSeq(buf, 1, Len(drain_packets[1]))
  /\ (drain_packets # None /\ buf_lock # "drain_buffer") =>
       RingAtOneInstant(drain_packets[1])
  /\ DrainedBuffer =>
       /\ ConsecutiveTicks(DrainedFrames)
       /\ last.duration_to_dump = None => RingAtOneInstant(DrainedFrames)

\* the mixer pushed into the full ring after the copy was done and before
\* the packaging finished: the stream holds the ring of the earlier instant
C27_Witness ==
  /\ DrainedBuffer
  /\ last.duration_to_dump = None
  /\ Len(DrainedFrames) = BUFFER_SIZE
  /\ Last(DrainedFrames).seq < ticks
  /\ DrainedFrames # buf

\* ------------------------------------------------------------ C28
\* C28: within a speaker's ring the frames are in the order of their
\* pushes, and one VoiceTick pushes at most one frame into the ring of a
\* user, whatever the ssrc table holds.
C28_OneFramePerTransportTick ==
  [][ last'.op = "voice_tick" =>
        \A u \in Users :
          /\ tts_pushed'[u] <= tts_pushed[u] + 1
          /\ u \in DOMAIN user_to_sound_packets' =>
               LET q == user_to_sound_packets'[u]
               IN  \A i \in 1..(Len(q) - 1) : q[i].seq < q[i + 1].seq
    ]_vars

\* the same holds of every VoiceTick handled while no user is mapped from
\* two ssrcs
C28_HoldsForSingleSsrcUsers ==
  [][ (last'.op = "voice_tick" /\ C17_UserMappedFromOneSsrc) =>
        \A u \in Users :
          /\ tts_pushed'[u] <= tts_pushed[u] + 1
          /\ u \in DOMAIN user_to_sound_packets' =>
               LET q == user_to_sound_packets'[u]
               IN  \A i \in 1..(Len(q) - 1) : q[i].seq + 1 = q[i + 1].seq
    ]_vars

\* ------------------------------------------------------------ C29
\* the number of entries of the sequence s equal to x
CountIn(x, s) == Cardinality({i \in 1..Len(s) : s[i] = x})

\* C29: a mixer tick at time now folds exactly the accumulator's frames
\* that arrived earlier than now - 40 ms, oldest first, and leaves every
\* other frame in the accumulator; when no frame is that old it folds
\* nothing and pushes the silent frame.
C29_TickFoldsFramesOlderThanGrace ==
  [][ last'.op = "mix" =>
        LET old(p) == p.time < now - 2 * PACKET_DURATION
            folded == last'.consumed
        IN  /\ BagToSet(packet_buffer') \subseteq BagToSet(packet_buffer)
            /\ \A i \in 1..Len(folded) : BagIn(folded[i], packet_buffer)
            /\ \A p \in BagToSet(packet_buffer) :
                 /\ CountIn(p, folded)
                      = IF old(p) THEN CopiesIn(p, packet_buffer) ELSE 0
                 /\ CopiesIn(p, packet_buffer')
                      = IF old(p) THEN 0 ELSE CopiesIn(p, packet_buffer)
            /\ \A i \in 1..(Len(folded) - 1) : folded[i].time <= folded[i + 1].time
            /\ (\A p \in BagToSet(packet_buffer) : ~old(p)) =>
                 /\ folded = << >>
                 /\ last'.mix_buf = None
                 /\ last'.pushed = Some(empty_encoded)
                 /\ Last(buf') = [frame |-> empty_encoded, seq |-> ticks + 1]
    ]_vars

\* a tick folded two frames of different age, the older one first, and
\* left in the accumulator a frame that arrived exactly 40 ms before it
C29_Witness ==
  /\ last.op = "mix"
  /\ Len(last.consumed) = 2
  /\ last.consumed[1].time < last.consumed[2].time
  /\ \E p \in BagToSet(packet_buffer) : p.time = now - 2 * PACKET_DURATION

\* ------------------------------------------------------------ C30
\* the accumulator holds a frame stamped t
Held(t) == \E p \in BagToSet(packet_buffer) : p.time = t

\* the stamps for which the bounds leave the mixer the ticks and the time
\* to fold the frame: tick number t / 20 + 4 runs later than t + 40 ms
FoldableStamps ==
  {t \in 0..MaxTime : t % PACKET_DURATION = 0 /\ t + 4 * PACKET_DURATION <= MaxTime}

\* C30: a frame leaves the accumulator only by being folded into the mix of
\* a tick, and a folded frame leaves it (so no frame is folded twice); the
\* mix of a tick the codec accepts is the lookback frame of that tick; and
\* while the mixer task runs and time advances, a frame in the accumulator
\* is eventually folded.
C30_FoldedExactlyOnce ==
  /\ [][ /\ last'.op = "mix" =>
             /\ BagCardinality(packet_buffer')
                  = BagCardinality(packet_buffer) - Len(last'.consumed)
             /\ \A p \in BagToSet(packet_buffer) :
                  CopiesIn(p, packet_buffer)
                    = CopiesIn(p, packet_buffer') + CountIn(p, last'.consumed)
             /\ \A i \in 1..Len(last'.consumed) : BagIn(last'.consumed[i], packet_buffer)
             /\ (last'.consumed # << >> /\ ~last'.rejected) =>
                  Last(buf') = [frame |-> opus_encode(last'.mix_buf[1], TRUE)[1],
                                seq |-> ticks + 1]
         /\ last'.op = "add_sound_mux" =>
             BagCardinality(packet_buffer') = BagCardinality(packet_buffer) + 1
         /\ last'.op \notin {"mix", "add_sound_mux"} => packet_buffer' = packet_buffer
       ]_vars
  /\ \A t \in FoldableStamps : Held(t) ~> (~Held(t) \/ ~mixer_alive)

\* a frame that waited in the accumulator through ticks of the grace window
\* was folded by a later tick, which left a younger frame waiting
C30_Witness ==
  /\ last.op = "mix"
  /\ ticks >= 4
  /\ \E i \in 1..Len(last.consumed) : last.consumed[i].time = 0
  /\ packet_buffer # EmptyBag
  /\ mixer_alive

\* ------------------------------------------------------------ C31
\* the task on the thread waits, without an .await, for a lock whose holder
\* is suspended: the holder needs the thread to release it
ThreadBlocked ==
  /\ running = "speaking_state_update"
  /\ pc["speaking_state_update"] = "insert"
  /\ speaking_event[1].user_id # None
  /\ ~can_insert(act_ref, speaking_event[1].ssrc)

\* C31: on a single-threaded runtime no interleaving of the two arms of
\* act, the mixer task and the drains brings the thread to wait for a lock
\* that only a suspended task can release: every lock that is requested
\* can still be granted.
C31_NoDeadlock == ~ThreadBlocked

====
